---- MODULE Spec2Model ----
(***************************************************************************)
(* Model of the two MCP stdio servers (ado_mcp_stdio.py, jira_mcp_stdio.py)*)
(* : the OAuth token manager, the OAuth callback listener thread and the   *)
(* JSON-RPC dispatch loop.  One behaviour of the model is one process run  *)
(* of one of the two servers (tracker is fixed by Init).                   *)
(*                                                                         *)
(* The main loop runs one iteration (readline, handle_request, print) per  *)
(* action, except the authenticate tool call, which blocks in              *)
(* wait_for_authorization while the callback thread runs.  The callback    *)
(* thread handles one redirect per action: the whole of oauth_callback, the*)
(* token exchange and the resource bootstrap included, so a tool call never*)
(* sees the manager between the token write and the event being set.  The  *)
(* listener thread, once started, stays alive.  SpecInterleaved is the     *)
(* same program with the callback thread scheduled inside the exchange:    *)
(* after the assignment of access_token and before the bootstrap call.     *)
(* Wall-clock time advances                                                *)
(* only through Tick, and only while an expiry is held: the clock is read  *)
(* only against expires_at.  Tokens are opaque: the tokens of one answer of*)
(* the token endpoint carry the least tag not held at that moment.         *)
(*                                                                         *)
(* trace, resp, authLog and cb describe the iteration (the callback        *)
(* request) in progress; LoopBack and CallbackReturn forget them.  They    *)
(* touch nothing else, so the other thread is not scheduled between the    *)
(* end of an iteration (a request) and them.  The process ends when main   *)
(* returns: the listener is a daemon thread.                               *)
(***************************************************************************)
EXTENDS Integers, Sequences, FiniteSets, TLC

\* Python None: Nil for a string-valued field, None for a number or a list
\* (whose values are held as one-element tuples)
Nil == "None"
None == << >>
Some(v) == <<v>>
Val(o) == o[1]

\* ---------------------------------------------------------------- bounds
MaxLines == 3
MaxTicks == 1
StartTime == 1000

\* ------------------------------------------------------ program constants
SafetyMargin == 300
DefaultExpiresIn == 3600

Trackers == {"ado", "jira"}
\* os.getenv("MCP_SERVER", "").lower(): a tracker, or anything else
Servers == Trackers \cup {"other"}
\* the credentials the server's constructor reads from the environment
Credentials(tr) ==
    IF tr = "ado" THEN {"client_id", "client_secret", "tenant_id"}
    ELSE IF tr = "jira" THEN {"client_id", "client_secret"}
    ELSE {}

\* variant: only the client id is required
StartupExitsLenient(tr, absent) == tr \notin Trackers \/ "client_id" \in absent

\* startup.main and the constructors: sys.exit(1) when MCP_SERVER names no
\* tracker or a credential is unset or empty
StartupExits(tr, absent) == tr \notin Trackers \/ absent # {}
OrgNames == {"o1", "o2"}
ExpiresIns == {300}
TickSteps == {3299, 3301}

VARIABLES
    tracker,                \* which server this process runs (MCP_SERVER)
    missing,                \* the credentials the environment does not give
    now,                    \* time.time()
    ticks,                  \* number of Tick steps taken
    mgr,                    \* the OAuth token manager's fields
    origin,                 \* the tag of the token-endpoint answer that wrote
                            \* access_token and expires_at (0: none, cleared),
                            \* and whether the answer that wrote expires_at
                            \* carried an access token
    session_authenticated,  \* server.session_authenticated
    auth_method,            \* server.auth_method
    oauth_thread,           \* manager.oauth_thread: Nil or "alive"
    liveThreads,            \* number of listener threads currently running
    auth_complete,          \* manager.auth_complete (threading.Event flag)
    pc,                     \* main loop: "read", "waiting", "handled", "stopped"
    exitWhy,                \* why the process stopped: Nil, "eof", "crash",
                            \* "startup" (sys.exit(1) before the loop)
    lineNo,                 \* number of lines read from stdin
    owed,                   \* non-notification requests read and not answered
    resp,                   \* the object printed by this iteration
    trace,                  \* what this iteration of the main loop did
    cb_pc,                  \* callback thread: "idle", "write", "boot", "respond"
    cb,                     \* the callback request being handled
    authLog,                \* what this _authenticate_if_needed call did
    bootstrapped            \* the bootstrap fetch has returned since the last
                            \* _clear_tokens (or the start of the process)

vars == <<tracker, missing, bootstrapped, now, ticks, mgr, origin, session_authenticated, auth_method,
          oauth_thread, liveThreads, auth_complete, pc, exitWhy,
          lineNo, owed, resp, trace, cb_pc, cb, authLog>>

mainVars == <<pc, exitWhy, lineNo, owed, resp, trace>>
serverVars == <<session_authenticated, auth_method>>
listenerVars == <<oauth_thread, liveThreads>>
cbVars == <<cb_pc, cb>>
authVars == <<authLog>>

\* ------------------------------------------------------------ the manager
EmptyManager ==
    [access_token |-> None, refresh_token |-> None, expires_at |-> None,
     cloud_id |-> Nil, organizations |-> None,
     selected_organization |-> Nil, ado_url |-> Nil]

\* Python truthiness of an optional number and of an optional list
TruthyNum(v) == v # None /\ Val(v) # 0
TruthyList(v) == v # None /\ Val(v) # {}

\* answers of the provider's token endpoint
TokenResponses ==
    [status : {"200"}, has_at : BOOLEAN, has_rt : BOOLEAN,
     expires_in : {Some(e) : e \in ExpiresIns} \cup {None}]
    \cup [status : {"non200", "neterr"}, has_at : {FALSE}, has_rt : {FALSE},
          expires_in : {None}]

\* the request did not reach the token endpoint
NoAnswer == [status |-> "neterr", has_at |-> FALSE, has_rt |-> FALSE,
             expires_in |-> None]

\* variant: no safety margin
ExpiresAtNoMargin(t, r) ==
    Some(t + (IF r.expires_in = None THEN DefaultExpiresIn
                                     ELSE Val(r.expires_in)))

ExpiresAt(t, r) ==
    Some(t + (IF r.expires_in = None THEN DefaultExpiresIn
                                     ELSE Val(r.expires_in))
           - SafetyMargin)

\* variant: the refresh token survives
ClearTokensKeepsRefresh(m) ==
    [m EXCEPT !.access_token = None, !.expires_at = None, !.cloud_id = Nil,
              !.organizations = None, !.selected_organization = Nil,
              !.ado_url = Nil]

\* variant: the resource context survives
ClearTokensKeepsContext(m) ==
    [m EXCEPT !.access_token = None, !.refresh_token = None,
              !.expires_at = None]

\* _clear_tokens: every field either manager's _clear_tokens resets (a field
\* the other tracker's manager does not have is never written)
ClearTokens(m) ==
    [m EXCEPT !.access_token = None, !.refresh_token = None,
              !.expires_at = None, !.cloud_id = Nil, !.organizations = None,
              !.selected_organization = Nil, !.ado_url = Nil]

\* variant: the manager always reports a usable session
IsAuthenticatedAlways(tr, m) == TRUE

IsAuthenticated(tr, m) ==
    IF tr = "ado" THEN m.access_token # None
    ELSE m.access_token # None /\ m.cloud_id # Nil

\* Tokens are opaque strings; the tokens of one answer of the token endpoint
\* carry one tag, the least tag that no token held at that moment carries.
TokenTags == 1 .. 3
FreshTag(m) ==
    CHOOSE k \in TokenTags :
        /\ Some(k) \notin {m.access_token, m.refresh_token}
        /\ \A j \in TokenTags :
              Some(j) \notin {m.access_token, m.refresh_token} => k <= j

\* variant: a refused refresh forgets the session
RefreshAccessTokenWipes(m, r, k, t) ==
    IF m.refresh_token = None
    THEN [m |-> m, ok |-> FALSE, sent |-> FALSE]
    ELSE IF r.status = "200"
    THEN [m |-> [m EXCEPT !.access_token = IF r.has_at THEN Some(k) ELSE None,
                          !.refresh_token = IF r.has_rt THEN Some(k) ELSE @,
                          !.expires_at = ExpiresAt(t, r)],
          ok |-> TRUE, sent |-> TRUE]
    ELSE [m |-> ClearTokens(m), ok |-> FALSE, sent |-> TRUE]

\* variant: an answer without a refresh token drops the one held
RefreshAccessTokenDropsRefresh(m, r, k, t) ==
    IF m.refresh_token = None
    THEN [m |-> m, ok |-> FALSE, sent |-> FALSE]
    ELSE IF r.status = "200"
    THEN [m |-> [m EXCEPT !.access_token = IF r.has_at THEN Some(k) ELSE None,
                          !.refresh_token = IF r.has_rt THEN Some(k) ELSE None,
                          !.expires_at = ExpiresAt(t, r)],
          ok |-> TRUE, sent |-> TRUE]
    ELSE [m |-> m, ok |-> FALSE, sent |-> TRUE]

\* variant: the request is sent whether or not a refresh token is held
RefreshAccessTokenUnguarded(m, r, k, t) ==
    IF r.status = "200"
    THEN [m |-> [m EXCEPT !.access_token = IF r.has_at THEN Some(k) ELSE None,
                          !.refresh_token = IF r.has_rt THEN Some(k) ELSE @,
                          !.expires_at = ExpiresAt(t, r)],
          ok |-> TRUE, sent |-> TRUE]
    ELSE [m |-> m, ok |-> FALSE, sent |-> TRUE]

\* refresh_access_token: r is the token endpoint's answer, k the tag of its
\* tokens, t the clock.
RefreshAccessToken(m, r, k, t) ==
    IF m.refresh_token = None
    THEN [m |-> m, ok |-> FALSE, sent |-> FALSE]
    ELSE IF r.status = "200"
    THEN [m |-> [m EXCEPT !.access_token = IF r.has_at THEN Some(k) ELSE None,
                          !.refresh_token = IF r.has_rt THEN Some(k) ELSE @,
                          !.expires_at = ExpiresAt(t, r)],
          ok |-> TRUE, sent |-> TRUE]
    ELSE [m |-> m, ok |-> FALSE, sent |-> TRUE]

TokenExpired(m, t) == TruthyNum(m.expires_at) /\ t >= Val(m.expires_at)

GetValidToken(m, r, k, t) ==
    IF m.access_token = None
    THEN [m |-> m, ret |-> None, expired |-> FALSE, tried |-> FALSE,
          ok |-> FALSE, sent |-> FALSE, held |-> m.expires_at]
    ELSE IF TokenExpired(m, t)
    THEN LET rr == RefreshAccessToken(m, r, k, t) IN
         [m |-> rr.m,
          ret |-> IF rr.ok THEN rr.m.access_token ELSE None,
          expired |-> TRUE, tried |-> TRUE, ok |-> rr.ok, sent |-> rr.sent,
          held |-> m.expires_at]
    ELSE [m |-> m, ret |-> m.access_token, expired |-> FALSE,
          tried |-> FALSE, ok |-> FALSE, sent |-> FALSE, held |-> m.expires_at]

\* ------------------------------------------------- resource-context bootstrap
\* _get_cloud_id (Jira): o is what the accessible-resources call answers.
CloudOutcomes == {"id", "empty", "non200", "neterr"}

GetCloudId(m, o) ==
    IF m.access_token = None THEN [m |-> m, ok |-> FALSE, sent |-> FALSE]
    ELSE IF o = "id"
    THEN [m |-> [m EXCEPT !.cloud_id = "c1"], ok |-> TRUE, sent |-> TRUE]
    ELSE [m |-> m, ok |-> FALSE, sent |-> TRUE]

\* _get_ado_organizations (ADO): o is what the profile/accounts calls answer.
\* The organization list is kept as the set of its account names.
OrgOutcomes ==
    [kind : {"neterr", "non200", "empty"}, orgs : {{}}]
    \cup [kind : {"list"}, orgs : {{}, {"o1"}}]

GetAdoOrganizations(m, o) ==
    IF m.access_token = None THEN [m |-> m, ok |-> FALSE, sent |-> FALSE]
    ELSE IF o.kind \in {"neterr", "non200"}
    THEN [m |-> m, ok |-> FALSE, sent |-> TRUE]
    ELSE IF o.kind = "empty"
    THEN [m |-> [m EXCEPT !.organizations = Some({})], ok |-> FALSE, sent |-> TRUE]
    ELSE [m |-> [m EXCEPT !.organizations = Some(o.orgs)], ok |-> TRUE, sent |-> TRUE]

AdoUrl(name) == "https://dev.azure.com/" \o name

\* "if not self.organizations: self.organizations = []"
OrgList(m) == IF m.organizations = None THEN {} ELSE Val(m.organizations)

\* select_organization: valid is the answer of _validate_organization_access
\* (which is False without a token).
SelectOrganization(m, name, valid) ==
    IF m.access_token # None /\ valid
    THEN [m |-> [m EXCEPT !.organizations = Some(OrgList(m) \cup {name}),
                          !.selected_organization = name,
                          !.ado_url = AdoUrl(name)],
          ok |-> TRUE]
    ELSE IF ~TruthyList(m.organizations) THEN [m |-> m, ok |-> FALSE]
    ELSE IF name \in Val(m.organizations)
    THEN [m |-> [m EXCEPT !.selected_organization = name,
                          !.ado_url = AdoUrl(name)],
          ok |-> TRUE]
    ELSE [m |-> m, ok |-> FALSE]

\* _create_ado_organization: created is whether the accounts POST answered
\* 200/201; valid as in select_organization.
CreateAdoOrganization(m, name, created, valid) ==
    IF m.access_token = None \/ ~created THEN [m |-> m, ok |-> FALSE]
    ELSE LET m1 == [m EXCEPT !.organizations = Some(OrgList(m) \cup {name})]
         IN  [m |-> SelectOrganization(m1, name, valid).m, ok |-> TRUE]

\* _exchange_code_for_tokens up to the bootstrap call: the token fields
\* written on a 200 answer (ADO also drops the cached organization data).
ExchangeWrite(tr, m, r, k, t) ==
    IF r.status = "200"
    THEN LET m1 == [m EXCEPT !.access_token = IF r.has_at THEN Some(k) ELSE None,
                             !.refresh_token = IF r.has_rt THEN Some(k) ELSE None,
                             !.expires_at = ExpiresAt(t, r)]
         IN  IF tr = "ado"
             THEN [m1 EXCEPT !.organizations = None,
                             !.selected_organization = Nil,
                             !.ado_url = Nil]
             ELSE m1
    ELSE m

\* ------------------------------------------------------------ the envelope
Methods == {"initialize", "tools/list", "tools/call",
            "notifications/initialized", "notifications/cancelled",
            "resources/list", Nil}
NotificationMethods == {"notifications/initialized", "notifications/cancelled"}
Ids == {"absent", "null", "a"}
\* the id the tools/call requests that reach a handler carry
CallIds == {"7"}

\* variant: the id read from the request is dropped
IdOfDropped(id) == "null"

\* request_data.get("id"): a missing id and a null id both read as None
IdOf(id) == IF id = "absent" THEN "null" ELSE id

\* a notification-shaped request: no id, or a method under notifications/
IsNotification(method, id) == id = "absent" \/ method \in NotificationMethods

\* variant: the initialize branch returns None as well
ReturnsNoneInitialize(tr, method) ==
    method = "initialize" \/ (tr = "jira" /\ method = "notifications/initialized")

\* handle_request returns None (nothing is printed) for these methods
ReturnsNone(tr, method) ==
    tr = "jira" /\ method = "notifications/initialized"

\* variant: no method is routed
MethodResultUnrouted(method) == [shape |-> "nestedError", code |-> -32601]

\* the result handle_request builds for a method other than tools/call
MethodResult(method) ==
    IF method \in {"initialize", "tools/list"}
    THEN [shape |-> "result", code |-> 0]
    ELSE [shape |-> "nestedError", code |-> -32601]

\* the except branch of handle_request: data is what json.loads returned
\* ("notjson" when it raised, "falsy"/"truthy" for a value that is no
\* object, "obj" for an object); raises means .get failed in the handler.
ExceptBranch(data, id) ==
    IF data \in {"notjson", "falsy"} THEN [raises |-> FALSE, id |-> "null"]
    ELSE IF data = "obj" THEN [raises |-> FALSE, id |-> IdOf(id)]
    ELSE [raises |-> TRUE, id |-> "null"]

\* ------------------------------------------------------------ the catalog
ApiTools(tr) ==
    IF tr = "ado"
    THEN {"get_all_projects", "create_project", "create_issue",
          "get_issue_types", "search_issues", "get_issue"}
    ELSE {"get_all_projects", "create_project", "create_issue",
          "get_issue_types", "search_issues", "get_issue", "update_issue"}
\* one handler of each build: no arguments and its own try around the request;
\* arguments read with defaults; a required argument
ApiHandlers == {"get_all_projects", "create_project", "create_issue"}
OrgTools == {"get_organizations", "select_organization", "create_organization"}
ToolNames(tr) ==
    {"authenticate", "clear_session"} \cup ApiTools(tr)
    \cup (IF tr = "ado" THEN OrgTools ELSE {})
\* names a tools/call may carry that the dispatch table does not know
\* (Nil: no name member)
UnknownNames(tr) ==
    {"no_such_tool", Nil} \cup (IF tr = "ado" THEN {"update_issue"} ELSE OrgTools)

\* what the trace keeps of a tool name
ToolKind(tool) ==
    IF tool \in {"authenticate", "clear_session"} THEN tool
    ELSE IF tool \in OrgTools THEN "org" ELSE "api"

\* variant: the else branch answers with a protocol error
UnknownToolResultProtocol(name) == [shape |-> "protoError", code |-> -32601]

\* the else branch of handle_tools_call
UnknownToolResult(name) == [shape |-> "toolError", code |-> 0]

\* the except branch of handle_tools_call: what a handler outcome becomes
WrapHandler(outcome) ==
    IF outcome = "raise" THEN [shape |-> "toolError", code |-> 0]
    ELSE [shape |-> outcome, code |-> 0]

NoOrigin == [access_token |-> 0, expires_at |-> 0, carried |-> FALSE]
\* both fields written from the answer r, tagged k
Origin(k, r) == [access_token |-> k, expires_at |-> k, carried |-> r.has_at]

NoGvt ==
    [called |-> FALSE, ret |-> None, exp |-> None, at |-> 0,
     expired |-> FALSE, tried |-> FALSE, ok |-> FALSE, held |-> None,
     sent |-> FALSE, has_rt |-> FALSE]
NoAuthLog ==
    [called |-> FALSE, immediate |-> FALSE, startedThread |-> FALSE,
     reusedThread |-> FALSE, builtUrl |-> FALSE, waited |-> FALSE,
     during |-> Nil, ender |-> Nil, result |-> Nil]
NoResp == [no |-> 0, id |-> "null", shape |-> Nil, code |-> 0]
NoCb ==
    [branch |-> Nil, codeGiven |-> FALSE, errorGiven |-> FALSE, sets |-> 0,
     exchanged |-> FALSE,
     success |-> FALSE, answer |-> NoAnswer, tag |-> 0, boot |-> Nil]

Trace(no, data, method, id, tool) ==
    [no |-> no, data |-> data, method |-> method, id |-> id, tool |-> tool,
     printed |-> FALSE, delayed |-> FALSE, failure |-> Nil, raised |-> FALSE,
     sent |-> FALSE, cleared |-> FALSE, gvt |-> NoGvt]
NoTrace == Trace(0, Nil, Nil, "absent", Nil)

InternalError == [shape |-> "protoError", code |-> -32603]
Response(no, id, res) ==
    [no |-> no, id |-> id, shape |-> res.shape, code |-> res.code]

\* ------------------------------------------------------------ tool handlers
Upstream == {"ok", "http", "neterr", "badbody"}
ArgKinds == {"nondict", "missing", "ok"}

TakesArgs(tool) == tool # "get_all_projects"
\* ADO's _create_project reads its arguments with defaults
RequiresArg(tr, tool) ==
    TakesArgs(tool) /\ ~(tr = "ado" /\ tool = "create_project")
\* the handler's own try/except covers its API request
HandlerCatches(tr, tool) == tr = "jira" \/ tool = "get_all_projects"

\* what a get_valid_token call did; r is the token endpoint's answer
Gvt(g, r, t) ==
    [called |-> TRUE, ret |-> g.ret, exp |-> g.m.expires_at, at |-> t,
     expired |-> g.expired, tried |-> g.tried, ok |-> g.ok, held |-> g.held,
     sent |-> g.sent, has_rt |-> (g.sent /\ r.has_rt)]

\* _get_base_url, on the manager as _get_auth_headers left it
BaseUrl(tr, m) ==
    IF tr = "ado"
    THEN (IF m.access_token # None THEN m.ado_url ELSE Nil)
    ELSE (IF IsAuthenticated(tr, m)
          THEN "https://api.atlassian.com/ex/jira/" \o m.cloud_id ELSE Nil)

\* _make_api_request: _get_auth_headers (get_valid_token when
\* is_authenticated), _get_base_url, then the request; up is the upstream
\* answer.
MakeApiRequest(tr, m, r, k, t, up) ==
    LET auth == IsAuthenticated(tr, m)
        g == GetValidToken(m, r, k, t)
        m1 == IF auth THEN g.m ELSE m
        token == IF auth THEN g.ret ELSE None
        gvt == IF auth THEN Gvt(g, r, t) ELSE NoGvt
        refreshed == auth /\ g.sent
    IN  IF BaseUrl(tr, m1) = Nil
        THEN [m |-> m1, outcome |-> "raise", failure |-> "nourl",
              gvt |-> gvt, sent |-> FALSE, refreshed |-> refreshed]
        ELSE IF token = None
        THEN [m |-> m1, outcome |-> "raise", failure |-> "noauth",
              gvt |-> gvt, sent |-> FALSE, refreshed |-> refreshed]
        ELSE [m |-> m1,
              outcome |-> IF up = "ok" THEN "result"
                          ELSE IF up = "http" THEN "toolError" ELSE "raise",
              failure |-> IF up = "ok" THEN Nil ELSE up,
              gvt |-> gvt, sent |-> TRUE, refreshed |-> refreshed]

Quiet(m, outcome, failure) ==
    [m |-> m, outcome |-> outcome, failure |-> failure, gvt |-> NoGvt,
     sent |-> FALSE, refreshed |-> FALSE]

\* the answers that can reach the caller: the token endpoint is asked only
\* when get_valid_token refreshes, the tracker only when a request is sent
RefreshAnswers(tr, m, t) ==
    IF IsAuthenticated(tr, m) /\ GetValidToken(m, NoAnswer, 0, t).sent
    THEN TokenResponses ELSE {NoAnswer}
UpstreamAnswers(tr, m, r, k, t) ==
    IF MakeApiRequest(tr, m, r, k, t, "ok").sent THEN Upstream ELSE {"ok"}

\* a project / work-item tool handler (_get_all_projects, _create_issue, ...)
ApiHandler(tr, m, sa, tool, args, r, k, t, up) ==
    LET req == MakeApiRequest(tr, m, r, k, t, up)
        call == IF req.outcome = "raise" /\ HandlerCatches(tr, tool)
                THEN [req EXCEPT !.outcome = "toolError"] ELSE req
    IN  IF tr = "ado" /\ (~sa \/ m.access_token = None)
        THEN Quiet(m, "toolError", "gate")
        ELSE IF tr = "ado" /\ m.ado_url = Nil
        THEN Quiet(m, "toolError", "noorg")
        ELSE IF TakesArgs(tool) /\ args = "nondict"
        THEN Quiet(m, "raise", "args")
        ELSE IF RequiresArg(tr, tool) /\ args = "missing"
        THEN Quiet(m, "toolError", "args")
        ELSE call

Init ==
    /\ tracker \in Servers
    /\ missing \in SUBSET Credentials(tracker)
    /\ now = StartTime
    /\ ticks = 0
    /\ mgr = EmptyManager
    /\ origin = NoOrigin
    /\ session_authenticated = FALSE
    /\ auth_method = Nil
    /\ oauth_thread = Nil
    /\ liveThreads = 0
    /\ auth_complete = FALSE
    /\ pc = IF StartupExits(tracker, missing) THEN "stopped" ELSE "read"
    /\ exitWhy = IF StartupExits(tracker, missing) THEN "startup" ELSE Nil
    /\ lineNo = 0
    /\ owed = {}
    /\ resp = NoResp
    /\ trace = NoTrace
    /\ cb_pc = "idle"
    /\ cb = NoCb
    /\ authLog = NoAuthLog
    /\ bootstrapped = FALSE

\* the process is running and the main thread is not between print and readline
Running == pc \in {"read", "waiting"}

\* ---------------------------------------------------------------- the clock
Tick ==
    /\ Running
    /\ cb_pc # "respond"
    /\ ticks < MaxTicks
    /\ mgr.expires_at # None
    /\ \E d \in TickSteps : now' = now + d
    /\ ticks' = ticks + 1
    /\ UNCHANGED <<tracker, missing, bootstrapped, mgr, origin, serverVars, listenerVars, auth_complete,
                   mainVars, cbVars, authVars>>

\* ------------------------------------------------------------ the main loop
CanRead == pc = "read" /\ lineNo < MaxLines /\ cb_pc # "respond"

\* main: "if response: print(json.dumps(response), flush=True)"
Emits(response) == response.shape # Nil

\* the line read is a request that is owed a response
IsRequest(t) == t.data = "obj" /\ ~IsNotification(t.method, t.id)

Owed(t, response) ==
    (owed \cup (IF IsRequest(t) THEN {t.no} ELSE {}))
        \ (IF Emits(response) THEN {response.no} ELSE {})

\* one iteration of main's loop whose handle_request returned response
\* (NoResp for None); t describes the line that was read
Iterate(t, response) ==
    /\ lineNo' = lineNo + 1
    /\ trace' = [t EXCEPT !.printed = Emits(response)]
    /\ resp' = response
    /\ owed' = Owed(t, response)
    /\ pc' = "handled"
    /\ UNCHANGED exitWhy

\* an exception leaves handle_request: main's "except Exception" ends the loop
Crash(t) ==
    /\ lineNo' = lineNo + 1
    /\ trace' = t
    /\ resp' = NoResp
    /\ owed' = Owed(t, NoResp)
    /\ pc' = "stopped"
    /\ exitWhy' = "crash"

sessionVars == <<tracker, missing, bootstrapped, now, ticks, mgr, origin, serverVars, listenerVars,
                 auth_complete, cbVars, authVars>>

\* main: back to readline
LoopBack ==
    /\ pc = "handled"
    /\ pc' = "read"
    /\ trace' = NoTrace
    /\ resp' = NoResp
    /\ authLog' = NoAuthLog
    /\ UNCHANGED <<exitWhy, lineNo, owed>>
    /\ UNCHANGED <<tracker, missing, bootstrapped, now, ticks, mgr, origin, serverVars, listenerVars,
                   auth_complete, cbVars>>

\* readline returns "" at end of input
ReadEOF ==
    /\ pc = "read"
    /\ cb_pc # "respond"
    /\ pc' = "stopped"
    /\ exitWhy' = "eof"
    /\ UNCHANGED <<lineNo, owed, resp, trace>>
    /\ UNCHANGED sessionVars

\* a line that is no JSON, or JSON that is no object
DispatchMalformed ==
    /\ CanRead
    /\ \E data \in {"notjson", "falsy", "truthy"} :
         LET e == ExceptBranch(data, "absent")
             t == Trace(lineNo + 1, data, Nil, "absent", Nil)
         IN  IF e.raises THEN Crash(t)
             ELSE Iterate(t, Response(lineNo + 1, e.id, InternalError))
    /\ UNCHANGED sessionVars

\* a request object whose method is not tools/call
DispatchMethod ==
    /\ CanRead
    /\ \E method \in Methods \ {"tools/call"}, id \in Ids :
         LET t == Trace(lineNo + 1, "obj", method, id, Nil)
         IN  Iterate(t, IF ReturnsNone(tracker, method) THEN NoResp
                        ELSE Response(lineNo + 1, IdOf(id), MethodResult(method)))
    /\ UNCHANGED sessionVars

\* tools/call whose params is no object: params.get raises in
\* handle_tools_call, before its try
ToolsCallBadParams ==
    /\ CanRead
    /\ \E id \in Ids :
         LET e == ExceptBranch("obj", id)
             t == [Trace(lineNo + 1, "obj", "tools/call", id, Nil)
                      EXCEPT !.failure = "params", !.raised = TRUE]
         IN  Iterate(t, Response(lineNo + 1, e.id, InternalError))
    /\ UNCHANGED sessionVars

ToolsCallUnknown ==
    /\ CanRead
    /\ \E id \in Ids, name \in UnknownNames(tracker) :
         LET t == [Trace(lineNo + 1, "obj", "tools/call", id, "unknown")
                      EXCEPT !.failure = "unknown"]
         IN  Iterate(t, Response(lineNo + 1, IdOf(id), UnknownToolResult(name)))
    /\ UNCHANGED sessionVars

\* the trace of a tools/call that went through async_safe_call
ToolTrace(id, tool) ==
    [Trace(lineNo + 1, "obj", "tools/call", id, ToolKind(tool))
        EXCEPT !.delayed = TRUE]

\* the session as clear_session leaves it
SessionCleared ==
    mgr = EmptyManager /\ ~session_authenticated /\ auth_method = Nil

\* clear_session tool: _clear_session, clear_session, _clear_tokens
ToolClearSession ==
    /\ CanRead
    /\ \E id \in CallIds :
         Iterate([ToolTrace(id, "clear_session") EXCEPT !.cleared = SessionCleared],
                 Response(lineNo + 1, IdOf(id), WrapHandler("result")))
    /\ mgr' = ClearTokens(mgr)
    /\ origin' = NoOrigin
    /\ session_authenticated' = FALSE
    /\ auth_method' = Nil
    /\ bootstrapped' = FALSE
    /\ UNCHANGED <<tracker, missing, now, ticks, listenerVars, auth_complete,
                   cbVars, authLog>>

\* project / work-item tools
ToolApi ==
    /\ CanRead
    /\ \E id \in CallIds, tool \in ApiHandlers, args \in ArgKinds,
          r \in RefreshAnswers(tracker, mgr, now) :
       \E up \in UpstreamAnswers(tracker, mgr, r, FreshTag(mgr), now) :
         LET h == ApiHandler(tracker, mgr, session_authenticated, tool, args,
                             r, FreshTag(mgr), now, up)
             t == [ToolTrace(id, tool) EXCEPT
                      !.failure = h.failure,
                      !.raised = (h.failure \in {"nourl", "noauth", "neterr",
                                                 "badbody"}
                                  \/ h.outcome = "raise"),
                      !.sent = h.sent, !.gvt = h.gvt]
         IN  /\ mgr' = h.m
             /\ origin' = IF h.gvt.ok THEN Origin(FreshTag(mgr), r) ELSE origin
             /\ Iterate(t, Response(lineNo + 1, IdOf(id), WrapHandler(h.outcome)))
    /\ UNCHANGED <<tracker, missing, bootstrapped, now, ticks, serverVars, listenerVars,
                   auth_complete, cbVars, authVars>>

\* ------------------------------------------------- ADO organization tools
OrgArgs == {"nondict", "missing"} \cup OrgNames

GetOrganizationsHandler(m, sa, o) ==
    IF ~sa \/ m.access_token = None THEN Quiet(m, "toolError", "gate")
    ELSE IF m.organizations # None THEN Quiet(m, "result", Nil)
    ELSE LET g == GetAdoOrganizations(m, o)
         IN  [Quiet(g.m, "result",
                    IF o.kind = "neterr" THEN "neterr"
                    ELSE IF o.kind = "non200" THEN "http" ELSE Nil)
                 EXCEPT !.sent = g.sent]

SelectOrganizationHandler(m, sa, args, valid) ==
    IF ~sa \/ m.access_token = None THEN Quiet(m, "toolError", "gate")
    ELSE IF args = "nondict" THEN Quiet(m, "raise", "args")
    ELSE IF args = "missing" THEN Quiet(m, "toolError", "args")
    ELSE LET g == SelectOrganization(m, args, valid)
         IN  [Quiet(g.m, IF g.ok THEN "result" ELSE "toolError",
                    IF g.ok THEN Nil ELSE "select") EXCEPT !.sent = TRUE]

CreateOrganizationHandler(m, sa, args, created, valid) ==
    IF ~sa \/ m.access_token = None THEN Quiet(m, "toolError", "gate")
    ELSE IF args = "nondict" THEN Quiet(m, "raise", "args")
    ELSE IF args = "missing" THEN Quiet(m, "toolError", "args")
    ELSE LET g == CreateAdoOrganization(m, args, created, valid)
         IN  [Quiet(g.m, IF g.ok THEN "result" ELSE "toolError",
                    IF g.ok THEN Nil ELSE "create") EXCEPT !.sent = TRUE]

ToolOrg ==
    /\ CanRead
    /\ tracker = "ado"
    /\ \E id \in CallIds, tool \in OrgTools :
       \E args \in (IF tool = "get_organizations" THEN {"missing"} ELSE OrgArgs),
          o \in (IF tool = "get_organizations" THEN OrgOutcomes
                 ELSE {[kind |-> "neterr", orgs |-> {}]}),
          created \in (IF tool = "create_organization" THEN BOOLEAN ELSE {FALSE}),
          valid \in (IF tool = "get_organizations" THEN {FALSE} ELSE BOOLEAN) :
         LET h == IF tool = "get_organizations"
                  THEN GetOrganizationsHandler(mgr, session_authenticated, o)
                  ELSE IF tool = "select_organization"
                  THEN SelectOrganizationHandler(mgr, session_authenticated,
                                                 args, valid)
                  ELSE CreateOrganizationHandler(mgr, session_authenticated,
                                                 args, created, valid)
             t == [ToolTrace(id, tool) EXCEPT
                      !.failure = h.failure,
                      !.raised = (h.outcome = "raise"),
                      !.sent = h.sent]
         IN  /\ mgr' = h.m
             /\ UNCHANGED origin
             /\ bootstrapped' =
                  (bootstrapped \/ (tool = "get_organizations" /\ h.sent))
             /\ Iterate(t, Response(lineNo + 1, IdOf(id), WrapHandler(h.outcome)))
    /\ UNCHANGED <<tracker, missing, now, ticks, serverVars, listenerVars,
                   auth_complete, cbVars, authVars>>

\* ------------------------------------------------------------ authenticate
\* variant: the session flag is not consulted
AlreadyAuthenticatedIgnored(sa) == FALSE

\* _authenticate_if_needed: "if self.session_authenticated: return True"
AlreadyAuthenticated(sa) == sa

\* variant: the liveness of the listener thread is not consulted
ServerRunningIgnored(th) == FALSE

\* _start_oauth_server: "if self.oauth_thread and self.oauth_thread.is_alive()"
ServerRunning(th) == th = "alive"

\* the authenticate tool on a session that is already authenticated
AuthImmediate ==
    /\ CanRead
    /\ AlreadyAuthenticated(session_authenticated)
    /\ \E id \in CallIds :
         Iterate(ToolTrace(id, "authenticate"),
                 Response(lineNo + 1, IdOf(id), WrapHandler("result")))
    /\ authLog' = [NoAuthLog EXCEPT !.called = TRUE, !.immediate = TRUE,
                                    !.result = "ok"]
    /\ UNCHANGED <<tracker, missing, bootstrapped, now, ticks, mgr, origin, serverVars, listenerVars,
                   auth_complete, cbVars>>

\* the authenticate tool otherwise: start_oauth_flow (listener, URL, browser)
\* and the call of wait_for_authorization
AuthBegin ==
    /\ CanRead
    /\ ~AlreadyAuthenticated(session_authenticated)
    /\ \E id \in CallIds :
         LET t == ToolTrace(id, "authenticate")
         IN  /\ trace' = t
             /\ owed' = Owed(t, NoResp)
    /\ lineNo' = lineNo + 1
    /\ pc' = "waiting"
    /\ IF ServerRunning(oauth_thread)
       THEN UNCHANGED listenerVars
       ELSE /\ oauth_thread' = "alive"
            /\ liveThreads' = liveThreads + 1
    /\ authLog' = [NoAuthLog EXCEPT !.called = TRUE,
                                    !.startedThread = ~ServerRunning(oauth_thread),
                                    !.reusedThread = ServerRunning(oauth_thread),
                                    !.builtUrl = TRUE, !.waited = TRUE]
    /\ UNCHANGED <<tracker, missing, bootstrapped, now, ticks, mgr, origin, serverVars, auth_complete,
                   cbVars, resp, exitWhy>>

\* the response of the authenticate call that was waiting
Finish(outcome) ==
    /\ resp' = Response(trace.no, IdOf(trace.id), WrapHandler(outcome))
    /\ owed' = owed \ {trace.no}
    /\ trace' = [trace EXCEPT !.printed = TRUE,
                              !.failure = IF outcome = "result" THEN Nil
                                          ELSE "auth"]
    /\ pc' = "handled"
    /\ UNCHANGED <<lineNo, exitWhy>>

\* wait_for_authorization returns True: the event is set
AuthSignalled ==
    /\ pc = "waiting"
    /\ cb_pc # "respond"
    /\ auth_complete
    /\ IF IsAuthenticated(tracker, mgr)
       THEN /\ session_authenticated' = TRUE
            /\ auth_method' = "oauth"
            /\ authLog' = [authLog EXCEPT !.result = "ok"]
            /\ Finish("result")
       ELSE /\ authLog' = [authLog EXCEPT !.result = "fail"]
            /\ Finish("toolError")
            /\ UNCHANGED serverVars
    /\ UNCHANGED <<tracker, missing, bootstrapped, now, ticks, mgr, origin, listenerVars, auth_complete,
                   cbVars>>

\* wait_for_authorization returns False: the timeout elapsed, event not set
AuthTimeout ==
    /\ pc = "waiting"
    /\ cb_pc # "respond"
    /\ ~auth_complete
    /\ authLog' = [authLog EXCEPT !.result = "timeout"]
    /\ Finish("toolError")
    /\ UNCHANGED <<tracker, missing, bootstrapped, now, ticks, mgr, origin, serverVars, listenerVars,
                   auth_complete, cbVars>>

\* ------------------------------------------------------ the callback thread
CallbackPath == "/oauth/callback"
Paths == {CallbackPath, "/favicon.ico"}
QueryValues == {Nil, "", "x"}

\* request.args.get(...) is None or a string; "" is falsy
Given(v) == v # Nil /\ v # ""

\* variant: the code parameter is looked at before the error parameter
CallbackBranchCodeFirst(path, code, error) ==
    IF path # CallbackPath THEN "notfound"
    ELSE IF Given(code) THEN "code"
    ELSE IF Given(error) THEN "error"
    ELSE "invalid"

\* oauth_callback: the branch a request takes (Flask answers 404 elsewhere)
CallbackBranch(path, code, error) ==
    IF path # CallbackPath THEN "notfound"
    ELSE IF Given(error) THEN "error"
    ELSE IF Given(code) THEN "code"
    ELSE "invalid"

\* variant: the event is set only when the exchange succeeded
SetsAfterExchangeOnSuccess(success) == success

\* oauth_callback sets the event after the exchange, whatever it returned
SetsAfterExchange(success) == TRUE

otherVars == <<tracker, missing, bootstrapped, now, ticks, serverVars, listenerVars, mainVars,
               authVars>>

\* the resource-context bootstrap that follows a 200 of the token endpoint
BootstrapOutcomes(tr) ==
    IF tr = "ado" THEN OrgOutcomes ELSE CloudOutcomes
Bootstrap(tr, m, o) ==
    IF tr = "ado" THEN GetAdoOrganizations(m, o).m ELSE GetCloudId(m, o).m

\* variant: a failed bootstrap undoes the exchange
ExchangeCodeForTokensStrict(tr, m, r, o, k, t) ==
    LET w == ExchangeWrite(tr, m, r, k, t)
        ok == IF tr = "ado" THEN GetAdoOrganizations(w, o).ok
              ELSE GetCloudId(w, o).ok
    IN  IF r.status = "200" /\ ok
        THEN [m |-> Bootstrap(tr, w, o), ret |-> TRUE]
        ELSE [m |-> m, ret |-> FALSE]

\* variant: a failed exchange forgets the tokens held
ExchangeCodeForTokensWipes(tr, m, r, o, k, t) ==
    IF r.status = "200"
    THEN [m |-> Bootstrap(tr, ExchangeWrite(tr, m, r, k, t), o), ret |-> TRUE]
    ELSE [m |-> ClearTokens(m), ret |-> FALSE]

\* _exchange_code_for_tokens: r is the token endpoint's answer, o the answer
\* to the bootstrap request
ExchangeCodeForTokens(tr, m, r, o, k, t) ==
    IF r.status = "200"
    THEN [m |-> Bootstrap(tr, ExchangeWrite(tr, m, r, k, t), o), ret |-> TRUE]
    ELSE [m |-> m, ret |-> FALSE]

\* the callback whose auth_complete.set() wakes the wait in progress: the
\* first to set the event, when the event was not set before ("error": an
\* error parameter; "failed", "exchanged": what the exchange returned);
\* "several" once another callback has signalled before the wait returned
Ender(log, was_set, b, ret) ==
    IF log.ender # Nil \/ log.during # Nil THEN
        (IF log.ender = Nil THEN Nil ELSE "several")
    ELSE IF was_set THEN Nil
    ELSE IF b = "error" THEN "error"
    ELSE IF ret THEN "exchanged" ELSE "failed"

NoBootstrap(tr) == CHOOSE o \in BootstrapOutcomes(tr) : TRUE
BootKind(tr, o) == IF tr = "ado" THEN o.kind ELSE o

\* oauth_callback: a request reaches the listener and is handled
OauthCallback ==
    /\ Running
    /\ oauth_thread = "alive"
    /\ cb_pc = "idle"
    /\ \E path \in Paths, code \in QueryValues, error \in QueryValues :
         LET b == CallbackBranch(path, code, error)
         IN  \E r \in (IF b = "code" THEN TokenResponses ELSE {NoAnswer}) :
             \E o \in (IF b = "code" /\ r.status = "200"
                        THEN BootstrapOutcomes(tracker)
                        ELSE {NoBootstrap(tracker)}) :
               LET x == ExchangeCodeForTokens(tracker, mgr, r, o,
                                              FreshTag(mgr), now)
                   set == \/ b = "error"
                          \/ b = "code" /\ SetsAfterExchange(x.ret)
               IN  /\ mgr' = IF b = "code" THEN x.m ELSE mgr
                   /\ origin' = IF b = "code" /\ r.status = "200"
                                 THEN Origin(FreshTag(mgr), r) ELSE origin
                   /\ auth_complete' = (auth_complete \/ set)
                   /\ cb' = [branch |-> b,
                             codeGiven |-> (path = CallbackPath /\ Given(code)),
                             errorGiven |-> (path = CallbackPath /\ Given(error)),
                             sets |-> IF set THEN 1 ELSE 0,
                             exchanged |-> (b = "code"),
                             success |-> (b = "code" /\ x.ret),
                             answer |-> r,
                             tag |-> IF b = "code" THEN FreshTag(mgr) ELSE 0,
                             boot |-> IF b = "code" /\ r.status = "200"
                                      THEN BootKind(tracker, o) ELSE Nil]
                   /\ authLog' =
                        IF pc = "waiting" /\ set
                        THEN [authLog EXCEPT
                                !.during = IF b = "code" /\ x.ret /\ r.has_at
                                           THEN "tokens" ELSE "signal",
                                !.ender = Ender(authLog, auth_complete, b, x.ret)]
                        ELSE authLog
                   /\ bootstrapped' =
                        (bootstrapped \/ (b = "code" /\ r.status = "200"))
    /\ cb_pc' = "respond"
    /\ UNCHANGED <<tracker, missing, now, ticks, serverVars, listenerVars, mainVars>>

\* ---------------------------------------- the callback thread, step by step
\* oauth_callback up to the first assignment of the exchange: the branch
\* taken, and for a code the request to the token endpoint and, on a 200,
\* "self.access_token = tokens.get('access_token')"
CallbackExchange ==
    /\ Running
    /\ oauth_thread = "alive"
    /\ cb_pc = "idle"
    /\ \E path \in Paths, code \in QueryValues, error \in QueryValues :
         LET b == CallbackBranch(path, code, error)
         IN  \E r \in (IF b = "code" THEN TokenResponses ELSE {NoAnswer}) :
               LET boots == b = "code" /\ r.status = "200"
                   set == \/ b = "error"
                          \/ b = "code" /\ ~boots /\ SetsAfterExchange(FALSE)
               IN  /\ mgr' = IF boots
                              THEN [mgr EXCEPT !.access_token =
                                      ExchangeWrite(tracker, mgr, r, FreshTag(mgr),
                                                    now).access_token]
                              ELSE mgr
                   /\ origin' = IF boots
                                 THEN [origin EXCEPT !.access_token = FreshTag(mgr)]
                                 ELSE origin
                   /\ auth_complete' = (auth_complete \/ set)
                   /\ cb' = [branch |-> b,
                             codeGiven |-> (path = CallbackPath /\ Given(code)),
                             errorGiven |-> (path = CallbackPath /\ Given(error)),
                             sets |-> IF set THEN 1 ELSE 0,
                             exchanged |-> (b = "code"),
                             success |-> FALSE,
                             answer |-> r,
                             tag |-> IF b = "code" THEN FreshTag(mgr) ELSE 0,
                             boot |-> Nil]
                   /\ authLog' =
                        IF pc = "waiting" /\ set
                        THEN [authLog EXCEPT
                                !.during = "signal",
                                !.ender = Ender(authLog, auth_complete, b, FALSE)]
                        ELSE authLog
                   /\ cb_pc' = IF boots THEN "write" ELSE "respond"
    /\ UNCHANGED <<tracker, missing, bootstrapped, now, ticks, serverVars, listenerVars,
                   mainVars>>

\* the other assignments of the exchange: refresh_token, expires_at (and the
\* reset of ADO's cached organization data), from the answer already received
CallbackWrite ==
    /\ Running
    /\ cb_pc = "write"
    /\ mgr' = [ExchangeWrite(tracker, mgr, cb.answer, cb.tag, now)
                  EXCEPT !.access_token = mgr.access_token]
    /\ origin' = [origin EXCEPT !.expires_at = cb.tag,
                                !.carried = cb.answer.has_at]
    /\ cb_pc' = "boot"
    /\ UNCHANGED <<tracker, missing, bootstrapped, now, ticks, serverVars,
                   listenerVars, mainVars, auth_complete, cb, authLog>>

\* the rest of a successful exchange: the bootstrap call returns, then
\* _exchange_code_for_tokens returns True and oauth_callback sets the event
CallbackBootstrap ==
    /\ Running
    /\ cb_pc = "boot"
    /\ \E o \in BootstrapOutcomes(tracker) :
         /\ mgr' = Bootstrap(tracker, mgr, o)
         /\ UNCHANGED origin
         /\ cb' = [cb EXCEPT !.success = TRUE,
                             !.sets = IF SetsAfterExchange(TRUE) THEN 1 ELSE 0,
                             !.boot = BootKind(tracker, o)]
         /\ auth_complete' = (auth_complete \/ SetsAfterExchange(TRUE))
         /\ authLog' =
              IF pc = "waiting" /\ SetsAfterExchange(TRUE)
              THEN [authLog EXCEPT
                      !.during = IF cb.answer.has_at THEN "tokens" ELSE "signal",
                      !.ender = Ender(authLog, auth_complete, "code", TRUE)]
              ELSE authLog
    /\ bootstrapped' = TRUE
    /\ cb_pc' = "respond"
    /\ UNCHANGED <<tracker, missing, now, ticks, serverVars, listenerVars, mainVars>>

\* oauth_callback returns its text to the browser
CallbackReturn ==
    /\ cb_pc = "respond"
    /\ cb_pc' = "idle"
    /\ cb' = NoCb
    /\ UNCHANGED <<mgr, origin, auth_complete>>
    /\ UNCHANGED otherVars

Next ==
    \/ Tick
    \/ LoopBack
    \/ ReadEOF
    \/ DispatchMalformed
    \/ DispatchMethod
    \/ ToolsCallBadParams
    \/ ToolsCallUnknown
    \/ ToolClearSession
    \/ ToolApi
    \/ ToolOrg
    \/ AuthImmediate
    \/ AuthBegin
    \/ AuthSignalled
    \/ AuthTimeout
    \/ OauthCallback
    \/ CallbackReturn

Spec == Init /\ [][Next]_vars

\* the same program with the callback thread scheduled between the
\* assignment of access_token, the other assignments of the exchange and
\* its bootstrap call
NextInterleaved ==
    \/ Tick
    \/ LoopBack
    \/ ReadEOF
    \/ DispatchMalformed
    \/ DispatchMethod
    \/ ToolsCallBadParams
    \/ ToolsCallUnknown
    \/ ToolClearSession
    \/ ToolApi
    \/ ToolOrg
    \/ AuthImmediate
    \/ AuthBegin
    \/ AuthSignalled
    \/ AuthTimeout
    \/ CallbackExchange
    \/ CallbackWrite
    \/ CallbackBootstrap
    \/ CallbackReturn

SpecInterleaved == Init /\ [][NextInterleaved]_vars

\* ------------------------------------------------------------------ claims
\* the lines that are no request object
MalformedData == {"notjson", "falsy", "truthy"}
\* the methods handle_request routes
RoutingTable == {"initialize", "tools/list", "tools/call"} \cup NotificationMethods
\* the tools/call of the line being handled reached a tool handler
ReachedHandler == trace.tool \in {"authenticate", "clear_session", "api", "org"}
\* the session state a request may change
sessionState == <<mgr, session_authenticated, auth_method, oauth_thread,
                  liveThreads, auth_complete>>

\* the resource context (Jira cloud id, ADO organization data) is empty
ContextEmpty(m) ==
    /\ m.cloud_id = Nil
    /\ m.organizations = None
    /\ m.selected_organization = Nil
    /\ m.ado_url = Nil

\* C1: a token returned by get_valid_token has an expires_at later than the
\* clock at the moment of return, and when the held token has expired and the
\* refresh attempt fails, get_valid_token returns no token.
C1_ReturnedTokenIsFresh ==
    trace.gvt.called =>
        /\ trace.gvt.ret # None =>
              (trace.gvt.exp # None /\ Val(trace.gvt.exp) > trace.gvt.at)
        /\ (trace.gvt.expired /\ ~trace.gvt.ok) => trace.gvt.ret = None

\* C2: an authenticate call that returns success leaves the session flag set,
\* only clear_session resets the flag, and an authenticate call on a session
\* whose flag is set returns success without starting the listener, without
\* building an authorization URL and without waiting on the event.
C2_RepeatedAuthenticateImmediate ==
    [][ /\ (pc' = "handled" /\ trace'.tool = "authenticate"
             /\ resp'.shape = "result") => session_authenticated'
        /\ (session_authenticated /\ ~session_authenticated')
             => trace'.tool = "clear_session"
        /\ (pc = "read" /\ session_authenticated
             /\ trace'.tool = "authenticate")
             => /\ pc' = "handled"
                /\ resp'.shape = "result"
                /\ authLog'.immediate
                /\ ~authLog'.startedThread
                /\ ~authLog'.builtUrl
                /\ ~authLog'.waited
                /\ UNCHANGED <<oauth_thread, liveThreads>> ]_vars

C2_Witness ==
    /\ pc = "handled"
    /\ trace.tool = "authenticate"
    /\ authLog.immediate
    /\ resp.shape = "result"
    /\ lineNo >= 2

\* C3: every line that is no request object (no JSON, or JSON that is an
\* array, a string, a number or null) gets exactly one error response, with a
\* null id as none can be read, and the loop goes on to the next line.
C3_MalformedLineAnswered ==
    trace.data \in MalformedData =>
        /\ pc = "handled"
        /\ trace.printed
        /\ resp.no = trace.no
        /\ resp.shape = "protoError"
        /\ resp.id = "null"

\* C4: every non-notification request is answered before the next line is
\* read, the response printed in an iteration answers the line read in that
\* iteration, and while the loop is inside a handler only that request is
\* unanswered.
C4_OneResponsePerRequestInOrder ==
    /\ pc \in {"read", "stopped"} => owed = {}
    /\ pc = "waiting" => owed = {trace.no}
    /\ (pc = "handled" /\ IsRequest(trace)) => trace.printed
    /\ Emits(resp) =>
          /\ trace.printed
          /\ resp.no = trace.no
          /\ resp.no = lineNo
          /\ resp.id = IdOf(trace.id)

C4_Witness ==
    /\ pc = "handled"
    /\ IsRequest(trace)
    /\ Emits(resp)
    /\ resp.no = MaxLines

\* C5: in both servers a notification-shaped request (a method under
\* notifications/, or a request without an id) is answered with nothing.
C5_NotificationsSilent ==
    (pc = "handled" /\ trace.data = "obj"
     /\ IsNotification(trace.method, trace.id))
        => (~trace.printed /\ ~Emits(resp))

\* C6: a request whose method is not in the routing table is answered with
\* an error response of the envelope: the request id, a top-level error
\* member with the method-not-found code, and no result member.
C6_UnknownMethodEnvelopeError ==
    (pc = "handled" /\ trace.data = "obj" /\ trace.method \notin RoutingTable)
        => /\ trace.printed
           /\ resp.id = IdOf(trace.id)
           /\ resp.shape = "protoError"
           /\ resp.code = -32601

\* C7: a tools/call naming a tool that is not in the catalog (or no tool) is
\* answered with a result whose isError is true, changes no session state,
\* and the loop continues.
C7_UnknownToolErrorResult ==
    [][ (pc = "read" /\ trace'.tool = "unknown")
          => /\ pc' = "handled"
             /\ trace'.printed
             /\ resp'.shape = "toolError"
             /\ resp'.id = IdOf(trace'.id)
             /\ UNCHANGED sessionState ]_vars

C7_Witness ==
    /\ pc = "handled"
    /\ trace.tool = "unknown"
    /\ resp.shape = "toolError"
    /\ session_authenticated
    /\ mgr.access_token # None

\* C8: whatever way a tool handler fails, the tools/call is answered with
\* one response whose result has isError true, and the loop does not end.
C8_HandlerFailureFlagged ==
    (ReachedHandler /\ pc # "waiting" /\ (trace.failure # Nil \/ trace.raised))
        => /\ pc = "handled"
           /\ trace.printed
           /\ resp.no = trace.no
           /\ resp.shape = "toolError"

\* C9: a request to the callback path with a non-empty code sets the event
\* exactly once, whatever the token exchange does; a request to the callback
\* path with neither code nor error, and a request to another path, do not
\* set it.
C9_CallbackSignalsOnce ==
    [][ (cb_pc = "idle" /\ cb_pc' = "respond")
          => /\ cb'.codeGiven => (cb'.sets = 1 /\ auth_complete')
             /\ cb'.branch \in {"invalid", "notfound"}
                  => (cb'.sets = 0 /\ UNCHANGED auth_complete) ]_vars

C9_Witness ==
    /\ cb_pc = "respond"
    /\ cb.branch = "code"
    /\ cb.exchanged
    /\ ~cb.success
    /\ cb.sets = 1

\* C10: an authenticate call whose wait times out returns failure and leaves
\* the session unauthenticated (flag false, no token); the next authenticate
\* call builds a URL and waits again on the listener thread that is alive,
\* creating no other.  (The event is never cleared and the thread is started
\* only by authenticate, so a live thread with the event not set and the loop
\* at readline means every authenticate call so far timed out.)
C10_TimeoutThenReuse ==
    [][ /\ (pc = "waiting" /\ pc' = "handled" /\ ~auth_complete)
             => /\ resp'.shape = "toolError"
                /\ authLog'.result = "timeout"
                /\ ~session_authenticated'
                /\ mgr'.access_token = None
        /\ (pc = "read" /\ oauth_thread = "alive" /\ ~auth_complete
             /\ trace'.tool = "authenticate")
             => /\ pc' = "waiting"
                /\ authLog'.builtUrl
                /\ authLog'.waited
                /\ authLog'.reusedThread
                /\ ~authLog'.startedThread
                /\ UNCHANGED <<oauth_thread, liveThreads>> ]_vars

C10_Witness ==
    /\ pc = "waiting"
    /\ lineNo >= 2
    /\ ~auth_complete
    /\ authLog.reusedThread
    /\ liveThreads = 1

\* C11: the wait of an authenticate call ends only on a signal raised by a
\* callback received during that wait, or on its timeout; a signal left by
\* an earlier attempt does not end it.
C11_WaitEndsOnOwnSignal ==
    [][ (pc = "waiting" /\ pc' = "handled")
          => (authLog.during # Nil \/ ~auth_complete) ]_vars

\* C12: clear_session is idempotent: it always answers with a non-error
\* result and leaves the one cleared session (so a second call ends where
\* the first did), and on a session that is already cleared it changes no
\* field.
C12_ClearIdempotent ==
    [][ (pc = "read" /\ trace'.tool = "clear_session")
          => /\ pc' = "handled"
             /\ resp'.shape = "result"
             /\ SessionCleared'
             /\ UNCHANGED <<oauth_thread, liveThreads, auth_complete>>
             /\ SessionCleared => UNCHANGED sessionState ]_vars

C12_Witness ==
    /\ pc = "handled"
    /\ trace.tool = "clear_session"
    /\ trace.cleared
    /\ resp.shape = "result"
    /\ auth_complete

\* C13: from every state clear_session succeeds and leaves the flag false
\* and the access token, the refresh token, the expiry and the resource
\* context empty; the flag becomes true again only when an authenticate call
\* returns success.
C13_ClearLeavesUnauthenticated ==
    [][ /\ (pc = "read" /\ trace'.tool = "clear_session")
             => /\ resp'.shape = "result"
                /\ ~session_authenticated'
                /\ mgr'.access_token = None
                /\ mgr'.refresh_token = None
                /\ mgr'.expires_at = None
                /\ mgr'.cloud_id = Nil
                /\ mgr'.organizations = None
                /\ mgr'.selected_organization = Nil
                /\ mgr'.ado_url = Nil
        /\ (~session_authenticated /\ session_authenticated')
             => /\ pc = "waiting"
                /\ pc' = "handled"
                /\ trace'.tool = "authenticate"
                /\ resp'.shape = "result" ]_vars

C13_Witness ==
    /\ pc = "handled"
    /\ trace.tool = "clear_session"
    /\ ~trace.cleared
    /\ ~session_authenticated
    /\ mgr.refresh_token = None
    /\ auth_method = Nil
    /\ lineNo = MaxLines

\* C14: a successful code exchange at time t with expires_in = e (3600 when
\* the answer omits it) stores expires_at = t + e - 300; a get_valid_token
\* call later than the held expires_at makes one refresh attempt, a call
\* earlier than it makes none.
C14_ExpiryMarginAndRefresh ==
    /\ (cb_pc = "respond" /\ cb.success)
          => mgr.expires_at =
               Some(now + (IF cb.answer.expires_in = None THEN 3600
                           ELSE Val(cb.answer.expires_in)) - 300)
    /\ (trace.gvt.called /\ trace.gvt.held # None)
          => /\ trace.gvt.at > Val(trace.gvt.held) => trace.gvt.tried
             /\ trace.gvt.at < Val(trace.gvt.held) => ~trace.gvt.tried

C14_Witness ==
    /\ trace.gvt.called
    /\ trace.gvt.held = Some(StartTime + 3300)
    /\ trace.gvt.at = StartTime + 3301
    /\ trace.gvt.tried

\* C15: in both trackers is_authenticated is true exactly when an access
\* token is present, whatever the resource context.
C15_ReadyIffAccessToken ==
    IsAuthenticated(tracker, mgr) <=> (mgr.access_token # None)

\* C16: when the wait of authenticate ends after a callback, received
\* during it, whose exchange got a 200 with an access token, authenticate
\* returns success and the session is authenticated, whatever the bootstrap
\* answered.
C16_ExchangeSuccessAuthenticates ==
    [][ (pc = "waiting" /\ pc' = "handled" /\ authLog.during = "tokens")
          => (resp'.shape = "result" /\ session_authenticated') ]_vars

C18_CallbackInertOutsideWait ==
    [][ (cb_pc = "idle" /\ cb_pc' = "respond" /\ pc # "waiting")
          => /\ ~cb'.exchanged
             /\ UNCHANGED <<mgr, session_authenticated, auth_method>> ]_vars

\* C19: at most one listener thread exists at any moment: the manager holds
\* a thread exactly when one is running, and a start while it is alive
\* creates none.
C19_AtMostOneListener ==
    /\ liveThreads \in {0, 1}
    /\ (oauth_thread = "alive") <=> (liveThreads = 1)
    /\ authLog.reusedThread => ~authLog.startedThread

C19_Witness ==
    /\ pc = "waiting"
    /\ authLog.reusedThread
    /\ auth_complete
    /\ liveThreads = 1
    /\ lineNo = MaxLines

\* C20: every emitted response carries the id of the request it answers
\* (number or string), and null when the request has a null id, no id, or
\* is no request object.
C20_ResponseEchoesId ==
    Emits(resp)
        => resp.id = (IF trace.data = "obj" /\ trace.id \notin {"absent", "null"}
                      THEN trace.id ELSE "null")

C20_Witness ==
    /\ Emits(resp)
    /\ resp.shape = "protoError"
    /\ trace.method = "tools/call"
    /\ resp.id = "a"

C22_FailedRefreshUnauthenticates ==
    (trace.gvt.called /\ trace.gvt.expired /\ trace.gvt.tried /\ ~trace.gvt.ok)
        => ~session_authenticated

\* C23: every tools/call request, whatever tool it names, goes through the
\* fixed pre-call delay once, after it is read and before its handler runs
\* and its response is printed.
C23_EveryToolsCallDelayed ==
    (pc # "read" /\ trace.data = "obj" /\ trace.method = "tools/call"
     /\ ~trace.raised)
        => trace.delayed

\* C24: a code exchange that the token endpoint answers with a non-200
\* status, or that fails in transport, returns failure and leaves the access
\* token, the refresh token, the expiry and the resource context as they
\* were, also when tokens were already held.
C24_FailedExchangeKeepsState ==
    [][ (cb_pc = "idle" /\ cb_pc' = "respond" /\ cb'.exchanged
         /\ cb'.answer.status # "200")
          => /\ ~cb'.success
             /\ mgr' = mgr ]_vars

C24_Witness ==
    /\ cb_pc = "respond"
    /\ cb.exchanged
    /\ cb.answer.status \in {"non200", "neterr"}
    /\ ~cb.success
    /\ mgr.access_token # None
    /\ mgr.refresh_token # None

\* C25: after a successful refresh whose answer carries no refresh token the
\* refresh token held is the one held before; when the answer carries one,
\* the refresh token held is that new one.
C25_RefreshTokenRetained ==
    [][ (pc = "read" /\ trace'.gvt.tried /\ trace'.gvt.ok)
          => mgr'.refresh_token =
               (IF trace'.gvt.has_rt THEN Some(FreshTag(mgr))
                ELSE mgr.refresh_token) ]_vars

C25_Witness ==
    /\ pc = "handled"
    /\ trace.gvt.tried
    /\ trace.gvt.ok
    /\ ~trace.gvt.has_rt
    /\ mgr.refresh_token # None
    /\ mgr.access_token # None
    /\ mgr.access_token # mgr.refresh_token

\* C26: a refresh attempted while no refresh token is held fails without a
\* request to the token endpoint and changes no session field.
C26_RefreshWithoutTokenFailsFast ==
    [][ (pc = "read" /\ trace'.gvt.tried /\ mgr.refresh_token = None)
          => /\ ~trace'.gvt.ok
             /\ ~trace'.gvt.sent
             /\ trace'.gvt.ret = None
             /\ UNCHANGED sessionState ]_vars

C26_Witness ==
    /\ pc = "handled"
    /\ trace.gvt.tried
    /\ ~trace.gvt.sent
    /\ ~trace.gvt.ok
    /\ mgr.refresh_token = None
    /\ mgr.access_token # None

\* C27: a request to the callback path that carries an error parameter, with
\* or without a code parameter, sets the event, attempts no token exchange
\* and leaves the token fields and the resource context unchanged.
C27_ErrorCallbackNoExchange ==
    [][ (cb_pc = "idle" /\ cb_pc' = "respond" /\ cb'.errorGiven)
          => /\ auth_complete'
             /\ cb'.sets = 1
             /\ ~cb'.exchanged
             /\ mgr' = mgr ]_vars

C27_Witness ==
    /\ cb_pc = "respond"
    /\ cb.errorGiven
    /\ cb.codeGiven
    /\ cb.sets = 1
    /\ ~cb.exchanged
    /\ mgr.access_token # None

\* C28: the resource context never outlives the token it was obtained with:
\* clear_session leaves it empty, and a successful code exchange that
\* replaces tokens already held leaves it freshly fetched with the new token
\* or empty, also when the bootstrap fetch for the new token fails.
C28_ContextNeverOutlivesToken ==
    [][ /\ (pc = "read" /\ trace'.tool = "clear_session")
             => ContextEmpty(mgr')
        /\ (cb_pc = "idle" /\ cb_pc' = "respond" /\ cb'.success
            /\ mgr.access_token # None /\ cb'.answer.has_at)
             => \/ tracker = "jira" /\ cb'.boot = "id"
                \/ tracker = "ado" /\ cb'.boot \in {"list", "empty"}
                \/ ContextEmpty(mgr') ]_vars

\* C30: initialize and tools/list change no session field (tokens, expiry,
\* resource context, session flag, event, listener) and answer with the same
\* result in every session state.
C30_InitializeAndListPure ==
    [][ (pc = "read" /\ trace'.data = "obj"
         /\ trace'.method \in {"initialize", "tools/list"})
          => /\ pc' = "handled"
             /\ resp'.shape = "result"
             /\ resp'.code = 0
             /\ resp'.id = IdOf(trace'.id)
             /\ UNCHANGED sessionState ]_vars

C30_Witness ==
    /\ pc = "handled"
    /\ trace.method = "tools/list"
    /\ resp.shape = "result"
    /\ session_authenticated
    /\ mgr.access_token # None
    /\ auth_complete

\* C29: in every reachable state, under every interleaving of the callback
\* thread's exchange with the main loop's authenticate call, the session
\* flag is true only if the resource-context bootstrap has run to completion
\* at least once since the last clear_session or the start of the process.
C29_FlagOnlyAfterBootstrap ==
    session_authenticated => bootstrapped

\* C31: when a required credential is missing at startup (client id or
\* secret, and the tenant id for ADO), or MCP_SERVER names neither tracker,
\* the process exits with a failure status before it reads a request line
\* and before it emits a response.
C31_MissingCredentialFatal ==
    (tracker \notin Trackers \/ missing # {})
        => /\ pc = "stopped"
           /\ exitWhy = "startup"
           /\ lineNo = 0
           /\ ~Emits(resp)
           /\ oauth_thread = Nil

C31_Witness ==
    /\ tracker = "ado"
    /\ missing = {"tenant_id"}
    /\ pc = "stopped"
    /\ exitWhy = "startup"

\* C32: no request to a tracker API, the ADO organization operations (list,
\* validate/select, create) included, carries an access token whose
\* expires_at has passed when the request is sent: every bearer token sent
\* upstream was obtained through get_valid_token.
C32_NoExpiredTokenUpstream ==
    (pc = "handled" /\ trace.tool \in {"api", "org"} /\ trace.sent)
        => \/ trace.gvt.called /\ trace.gvt.ret # None
           \/ ~TokenExpired(mgr, now)

\* C33: no tool handler other than authenticate sends a request to the
\* tracker API while the session flag is false: after an authenticate call
\* that failed or timed out, and after clear_session, a tracker tool call
\* answers with an error-flagged result and sends nothing upstream.
C33_NoUpstreamWhileUnauthenticated ==
    (pc = "handled" /\ trace.tool \in {"api", "org"} /\ ~session_authenticated)
        => /\ ~trace.sent
           /\ resp.shape = "toolError"

\* C34: in every reachable state, whatever the token endpoint answered (200
\* with or without an access token, another status, a transport error) and
\* whenever a callback arrived, the session flag is true only if an access
\* token is held.
C34_FlagImpliesAccessToken ==
    session_authenticated => mgr.access_token # None

\* C35: no request to a tracker's project / work-item API is sent while the
\* resource context that addresses it is absent: a Jira request is sent only
\* when a cloud id is held, and an ADO project, work-item or search tool
\* called with no organization selected answers with an error-flagged result
\* and sends nothing upstream.
C35_NoRequestWithoutContext ==
    (pc = "handled" /\ trace.tool = "api")
        => /\ trace.sent => (IF tracker = "jira" THEN mgr.cloud_id # Nil
                             ELSE mgr.ado_url # Nil)
           /\ (tracker = "ado" /\ mgr.ado_url = Nil)
                => (~trace.sent /\ resp.shape = "toolError")

C35_Witness ==
    /\ pc = "handled"
    /\ tracker = "ado"
    /\ trace.tool = "api"
    /\ trace.failure = "noorg"
    /\ session_authenticated
    /\ mgr.access_token # None
    /\ ~trace.sent
    /\ resp.shape = "toolError"

\* C36: ADO, in every state where no operation is in progress: ado_url is
\* set exactly when selected_organization is set, and then the organization
\* list has an entry with the selected organization's name and ado_url is
\* that organization's URL.
C36_OrgSelectionConsistent ==
    (tracker = "ado" /\ pc = "read" /\ cb_pc = "idle")
        => /\ (mgr.ado_url # Nil) <=> (mgr.selected_organization # Nil)
           /\ mgr.selected_organization # Nil
                => /\ mgr.organizations # None
                   /\ mgr.selected_organization \in Val(mgr.organizations)
                   /\ mgr.ado_url = AdoUrl(mgr.selected_organization)

C39_LoopEndsAtEof ==
    [][ (pc # "stopped" /\ pc' = "stopped")
          => \/ exitWhy' = "eof" /\ owed' = {} /\ UNCHANGED <<lineNo, resp>>
             \/ exitWhy' = "crash" /\ trace'.data \in MalformedData ]_vars

C39_Witness ==
    /\ pc = "stopped"
    /\ exitWhy = "eof"
    /\ lineNo = MaxLines
    /\ owed = {}
    /\ session_authenticated

\* C38: under every interleaving of a token exchange on the callback thread
\* with get_valid_token, a refresh or clear_session on the main loop, the
\* session never ends up with fields of different sources: once the exchange
\* has written its fields, the access token held is the one that came with
\* the expiry held (or everything is empty after clear_session; the refresh
\* token may be older, a refresh answer without one keeps it), and
\* get_valid_token compares the clock with the expiry that belongs to the
\* token it returns.
C38_TokenFieldsOneSource ==
    /\ (cb_pc # "write" /\ origin.carried)
          => origin.access_token = origin.expires_at
    /\ (pc = "handled" /\ trace.gvt.called /\ trace.gvt.ret # None)
          => origin.access_token = origin.expires_at
====
